---- MODULE Spec2Model ----
(***************************************************************************)
(* A model of blender-uv-layout.py: the layout of six box faces on a       *)
(* canvas, the guides drawn for them and the metadata written for them.    *)
(*                                                                         *)
(* Numbers.  The script computes with Python floats.  Here every length    *)
(* given in meters is held as a whole number of millimetres, and the scale *)
(* s is the exact fraction <<numerator, denominator>> in pixels per        *)
(* millimetre, so that  wm * s  and  (mm / 1000.0) * s  of the script are  *)
(* both "millimetres times s".  round() is Python's: half to even.         *)
(* The configuration constants of the script (canvas, margin, gaps, the    *)
(* face list) are its only inputs; Init draws them from bounded sets.      *)
(***************************************************************************)
EXTENDS Integers, Sequences, FiniteSets, TLC

\* ------------------------------------------------------------------ bounds
MaxMargin == 1
MaxGap == 1
\* (CANVAS_W, CANVAS_H) pairs and (width, height) pairs in millimetres
CanvasSizes == {<<3, 3>>, <<32, 23>>, <<64, 48>>}
FaceSizes == {<<256, 128>>, <<128, 96>>}

\* ------------------------------------------------- configuration constants
SAFE_INSET_MM == 50
DASH_LEN_MM == 25
GAP_LEN_MM == 15

SIDE_A == <<"S", "I", "D", "E", " ", "A">>
END_A == <<"E", "N", "D", " ", "A">>
TOP == <<"T", "O", "P">>
BOTTOM == <<"B", "O", "T", "T", "O", "M">>
SIDE_B == <<"S", "I", "D", "E", " ", "B">>
END_B == <<"E", "N", "D", " ", "B">>
\* the face list of the script, and the same faces with BOTTOM and END B
\* exchanged (rows TOP/END B and SIDE B/BOTTOM)
FaceNames == {<<SIDE_A, END_A, TOP, BOTTOM, SIDE_B, END_B>>,
              <<SIDE_A, END_A, TOP, END_B, SIDE_B, BOTTOM>>}

VARIABLES
    CANVAS_W, CANVAS_H, MARGIN_PX, COL_GAP_PX, ROW_GAP_PX,
    faces,          \* the six (name, width, height), lengths in millimetres
    pc,             \* position of the script
    s,              \* <<numerator, denominator>>, pixels per millimetre
    cols_px, rows_px, grid_x0, grid_y0,
    SAFE_INSET, DASH_LEN, GAP_LEN,
    r, y,           \* loop variables of the render loop
    metadata,       \* metadata["faces"]
    dashes,         \* the dashed_line calls of the latest loop iteration
    drawn,          \* number of drawing calls made on the canvas
    saved           \* outputs written

vars == <<CANVAS_W, CANVAS_H, MARGIN_PX, COL_GAP_PX, ROW_GAP_PX, faces, pc, s,
          cols_px, rows_px, grid_x0, grid_y0, SAFE_INSET, DASH_LEN, GAP_LEN,
          r, y, metadata, dashes, drawn, saved>>

config == <<CANVAS_W, CANVAS_H, MARGIN_PX, COL_GAP_PX, ROW_GAP_PX, faces>>
layout == <<s, cols_px, rows_px, grid_x0, grid_y0, SAFE_INSET, DASH_LEN, GAP_LEN>>

\* ----------------------------------------------------------------- helpers
Abs(a) == IF a < 0 THEN -a ELSE a
Max(a, b) == IF a >= b THEN a ELSE b
Min(a, b) == IF a <= b THEN a ELSE b

RECURSIVE SumSeq(_)
SumSeq(q) == IF q = <<>> THEN 0 ELSE Head(q) + SumSeq(Tail(q))

\* name.startswith(prefix)
StartsWith(name, prefix) ==
    /\ Len(name) >= Len(prefix)
    /\ SubSeq(name, 1, Len(prefix)) = prefix

\* grid[r][c], r in 0..2, c in 0..1
grid(row, c) == faces[2 * row + c + 1]

\* int(round(n / d)) for d > 0: round half to even
Round(n, d) ==
    LET q == n \div d
        m == n % d
    IN  IF 2 * m < d THEN q
        ELSE IF 2 * m > d THEN q + 1
        ELSE IF q % 2 = 0 THEN q ELSE q + 1

\* min(s_w, s_h) of two fractions with positive denominators
MinFrac(a, b) == IF a[1] * b[2] <= b[1] * a[2] THEN a ELSE b

\* int(m * s): the footprint truncated instead of rounded
ScalePxTruncated(m) == (m * s[1]) \div s[2]

\* int(round(m * s)), m in millimetres
ScalePx(m) == Round(m * s[1], s[2])

mm_to_px(mm, sc) == Max(1, Round(mm * sc[1], sc[2]))

\* ------------------------------------------------------------- dashed_line
\* math.hypot(dx, dy) for the axis-aligned edges dashed_rect passes
\* (one of dx, dy is 0)
hypot(dx, dy) == Abs(dx) + Abs(dy)

\* the loop with seg = dash_len: the last segment is not clipped
RECURSIVE DashLoopUnclipped(_, _, _, _, _, _)
DashLoopUnclipped(p1, u, length, dash_len, gap_len, dist) ==
    IF dist < length
    THEN LET ps == <<p1[1] + u[1] * dist, p1[2] + u[2] * dist>>
             pe == <<p1[1] + u[1] * (dist + dash_len),
                     p1[2] + u[2] * (dist + dash_len)>>
         IN  <<<<ps, pe>>>> \o
             DashLoopUnclipped(p1, u, length, dash_len, gap_len,
                               dist + dash_len + gap_len)
    ELSE <<>>

\* the while loop of dashed_line from distance dist on; u is (ux, uy);
\* the result is the list of draw.line calls [(xs, ys), (xe, ye)]
RECURSIVE DashLoop(_, _, _, _, _, _)
DashLoop(p1, u, length, dash_len, gap_len, dist) ==
    IF dist < length
    THEN LET seg == Min(dash_len, length - dist)
             ps == <<p1[1] + u[1] * dist, p1[2] + u[2] * dist>>
             pe == <<p1[1] + u[1] * (dist + seg), p1[2] + u[2] * (dist + seg)>>
         IN  <<<<ps, pe>>>> \o
             DashLoop(p1, u, length, dash_len, gap_len, dist + dash_len + gap_len)
    ELSE <<>>

dashed_line(p1, p2, dash_len, gap_len) ==
    LET dx == p2[1] - p1[1]
        dy == p2[2] - p1[2]
        length == hypot(dx, dy)
    IN  [p1 |-> p1, p2 |-> p2, dash_len |-> dash_len, gap_len |-> gap_len,
         segs |-> IF length <= 0 THEN <<>>
                  ELSE DashLoop(p1, <<dx \div length, dy \div length>>,
                                length, dash_len, gap_len, 0)]

\* the four dashed_line calls of dashed_rect: top, right, bottom, left
dashed_rect(rect, dash_len, gap_len) ==
    LET x0 == rect[1]
        y0 == rect[2]
        x1 == rect[3]
        y1 == rect[4]
    IN  << dashed_line(<<x0, y0>>, <<x1, y0>>, dash_len, gap_len),
           dashed_line(<<x1, y0>>, <<x1, y1>>, dash_len, gap_len),
           dashed_line(<<x1, y1>>, <<x0, y1>>, dash_len, gap_len),
           dashed_line(<<x0, y1>>, <<x0, y0>>, dash_len, gap_len) >>

\* number of draw.line calls made by a list of dashed_line calls
RECURSIVE SegCount(_)
SegCount(calls) ==
    IF calls = <<>> THEN 0 ELSE Len(Head(calls).segs) + SegCount(Tail(calls))

\* corner_ticks: eight draw.line calls
TickCalls == 8

rect_to_uv(rect, canvas_w, canvas_h) ==
    [px |-> [x0 |-> rect[1], y0 |-> rect[2], x1 |-> rect[3], y1 |-> rect[4]],
     uv |-> [u0 |-> <<rect[1], canvas_w>>, v0 |-> <<rect[2], canvas_h>>,
             u1 |-> <<rect[3], canvas_w>>, v1 |-> <<rect[4], canvas_h>>]]

\* ------------------------------------------------------------------- state
Init ==
    /\ \E cv \in CanvasSizes : CANVAS_W = cv[1] /\ CANVAS_H = cv[2]
    /\ MARGIN_PX \in 0..MaxMargin
    /\ COL_GAP_PX \in 0..MaxGap
    /\ ROW_GAP_PX \in 0..MaxGap
    /\ \E nm \in FaceNames, sz \in [1..6 -> FaceSizes] :
          faces = [i \in 1..6 |-> <<nm[i], sz[i][1], sz[i][2]>>]
    /\ pc = "layout"
    /\ s = <<0, 1>>
    /\ cols_px = <<>>
    /\ rows_px = <<>>
    /\ grid_x0 = 0
    /\ grid_y0 = 0
    /\ SAFE_INSET = 0
    /\ DASH_LEN = 0
    /\ GAP_LEN = 0
    /\ r = 0
    /\ y = 0
    /\ metadata = [faces |-> <<>>]
    /\ dashes = <<>>
    /\ drawn = 0
    /\ saved = FALSE

\* column and row maxima, in millimetres
cols_m == [c \in 1..2 |-> Max(Max(Max(0, grid(0, c - 1)[2]), grid(1, c - 1)[2]),
                              grid(2, c - 1)[2])]
rows_m == [i \in 1..3 |-> Max(Max(0, grid(i - 1, 0)[3]), grid(i - 1, 1)[3])]
sum_cols_m == SumSeq(cols_m)
sum_rows_m == SumSeq(rows_m)
avail_w_px == CANVAS_W - 2 * MARGIN_PX - (2 - 1) * COL_GAP_PX
avail_h_px == CANVAS_H - 2 * MARGIN_PX - (3 - 1) * ROW_GAP_PX

\* s = min(s_w, s_h)
Scale == MinFrac(<<avail_w_px, sum_cols_m>>, <<avail_h_px, sum_rows_m>>)

\* lines 135-174: scale, cell sizes, grid origin, guide sizes in pixels
ComputeLayout ==
    /\ pc = "layout"
    /\ IF sum_cols_m = 0 \/ sum_rows_m = 0
       THEN /\ pc' = "ZeroDivisionError"
            /\ UNCHANGED layout
       ELSE LET sc == Scale
                cpx == [c \in 1..2 |-> Round(cols_m[c] * sc[1], sc[2])]
                rpx == [i \in 1..3 |-> Round(rows_m[i] * sc[1], sc[2])]
                grid_w_px == SumSeq(cpx) + COL_GAP_PX
                grid_h_px == SumSeq(rpx) + (Len(rpx) - 1) * ROW_GAP_PX
            IN  /\ s' = sc
                /\ cols_px' = cpx
                /\ rows_px' = rpx
                /\ grid_x0' = (CANVAS_W - grid_w_px) \div 2
                /\ grid_y0' = (CANVAS_H - grid_h_px) \div 2
                /\ SAFE_INSET' = mm_to_px(SAFE_INSET_MM, sc)
                /\ DASH_LEN' = mm_to_px(DASH_LEN_MM, sc)
                /\ GAP_LEN' = mm_to_px(GAP_LEN_MM, sc)
                /\ pc' = "setup"
    /\ UNCHANGED <<config, r, y, metadata, dashes, drawn, saved>>

\* lines 179-189: the image, the metadata object, the loop's start
RenderSetup ==
    /\ pc = "setup"
    /\ metadata' = [canvas_px |-> <<CANVAS_W, CANVAS_H>>,
                    scale_px_per_meter |-> s,
                    faces |-> <<>>]
    /\ y' = grid_y0
    /\ r' = 0
    /\ pc' = "loop"
    /\ UNCHANGED <<config, layout, dashes, drawn, saved>>

\* the butting test on the right face's name alone
RightX0AnyLeft(name0, name1, fx1_0, x_right, cell_w_right, fw1) ==
    IF StartsWith(name1, <<"E", "N", "D">>)
    THEN fx1_0
    ELSE x_right + (cell_w_right - fw1) \div 2

\* lines 207-212: x of the right face's left edge
RightX0(name0, name1, fx1_0, x_right, cell_w_right, fw1) ==
    IF StartsWith(name1, <<"E", "N", "D">>) /\ StartsWith(name0, <<"S", "I", "D", "E">>)
    THEN fx1_0
    ELSE x_right + (cell_w_right - fw1) \div 2

\* line 254
Butted(name0, name1) ==
    StartsWith(name1, <<"E", "N", "D">>) /\ StartsWith(name0, <<"S", "I", "D", "E">>)

\* the inset added on the right edge instead of subtracted
SafeRectRightOut(cut, inset) ==
    <<cut[1] + inset, cut[2] + inset, cut[3] + inset, cut[4] - inset>>

\* lines 221-222
SafeRect(cut, inset) == <<cut[1] + inset, cut[2] + inset, cut[3] - inset, cut[4] - inset>>

\* lines 243-248 and 249-255
LeftRecord(face, cut, safe) ==
    [name |-> face[1],
     meters |-> [w |-> face[2], h |-> face[3]],
     cut_rect |-> rect_to_uv(cut, CANVAS_W, CANVAS_H),
     safe_rect |-> rect_to_uv(safe, CANVAS_W, CANVAS_H)]

RightRecord(face, cut, safe, butted) ==
    [name |-> face[1],
     meters |-> [w |-> face[2], h |-> face[3]],
     cut_rect |-> rect_to_uv(cut, CANVAS_W, CANVAS_H),
     safe_rect |-> rect_to_uv(safe, CANVAS_W, CANVAS_H),
     butted_to_side_right_edge |-> butted]

\* the right record appended before the left one
AppendPairSwapped(q, left, right) == Append(Append(q, right), left)

\* lines 243 and 249: the two appends of one row
AppendPair(q, left, right) == Append(Append(q, left), right)

\* the row advance without the row gap
NextYNoGap(y0, cell_h) == y0 + cell_h

\* line 257
NextY(y0, cell_h) == y0 + cell_h + ROW_GAP_PX

\* lines 190-257: one iteration of the render loop
RenderRow ==
    /\ pc = "loop"
    /\ r < 3
    /\ LET x_left == grid_x0
           cell_w_left == cols_px[1]
           cell_w_right == cols_px[2]
           cell_h == rows_px[r + 1]
           f0 == grid(r, 0)
           fw0 == ScalePx(f0[2])
           fh0 == ScalePx(f0[3])
           fx0_0 == x_left + (cell_w_left - fw0) \div 2
           fy0_0 == y + (cell_h - fh0) \div 2
           fx1_0 == fx0_0 + fw0
           fy1_0 == fy0_0 + fh0
           x_right == x_left + cell_w_left + COL_GAP_PX
           f1 == grid(r, 1)
           fw1 == ScalePx(f1[2])
           fh1 == ScalePx(f1[3])
           fx0_1 == RightX0(f0[1], f1[1], fx1_0, x_right, cell_w_right, fw1)
           fy0_1 == y + (cell_h - fh1) \div 2
           fx1_1 == fx0_1 + fw1
           fy1_1 == fy0_1 + fh1
           cut0 == <<fx0_0, fy0_0, fx1_0, fy1_0>>
           cut1 == <<fx0_1, fy0_1, fx1_1, fy1_1>>
           safe0 == SafeRect(cut0, SAFE_INSET)
           safe1 == SafeRect(cut1, SAFE_INSET)
           d0 == dashed_rect(safe0, DASH_LEN, GAP_LEN)
           d1 == dashed_rect(safe1, DASH_LEN, GAP_LEN)
           seam == IF Butted(f0[1], f1[1]) THEN 1 ELSE 0
       IN  /\ dashes' = d0 \o d1
           /\ drawn' = drawn + 2 + SegCount(d0 \o d1) + 2 * TickCalls + 2 + seam
           /\ metadata' = [metadata EXCEPT !.faces =
                  AppendPair(@, LeftRecord(f0, cut0, safe0),
                             RightRecord(f1, cut1, safe1, Butted(f0[1], f1[1])))]
           /\ y' = NextY(y, cell_h)
    /\ r' = r + 1
    /\ pc' = IF r + 1 < 3 THEN "loop" ELSE "title"
    /\ UNCHANGED <<config, layout, saved>>

\* lines 260-269: the title, then the two output files
Finish ==
    /\ pc = "title"
    /\ drawn' = drawn + 2
    /\ saved' = TRUE
    /\ pc' = "done"
    /\ UNCHANGED <<config, layout, r, y, metadata, dashes>>

Next == ComputeLayout \/ RenderSetup \/ RenderRow \/ Finish

Spec == Init /\ [][Next]_vars

\* ------------------------------------------------------------------ claims
\* the records written so far and their pixel rects
Recs == metadata.faces
Cut(i) == Recs[i].cut_rect.px
Safe(i) == Recs[i].safe_rect.px
RowsDone == {row \in 0..2 : 2 * row + 2 <= Len(Recs)}

\* a valid configuration: positive panel sizes, positive available area
Valid ==
    /\ \A i \in 1..6 : faces[i][2] > 0 /\ faces[i][3] > 0
    /\ avail_w_px > 0
    /\ avail_h_px > 0

\* roles by the configured name
IsSide(name) == name \in {SIDE_A, SIDE_B}
IsEnd(name) == name \in {END_A, END_B}
SideEndRow(row) == IsSide(grid(row, 0)[1]) /\ IsEnd(grid(row, 1)[1])

\* the y at which row `row` starts, from the layout
RECURSIVE RowTop(_)
RowTop(row) ==
    IF row = 0 THEN grid_y0 ELSE RowTop(row - 1) + rows_px[row] + ROW_GAP_PX

\* C1: in every valid configuration every cut rect written so far lies
\* inside the canvas: 0 <= x0 <= x1 <= CANVAS_W and 0 <= y0 <= y1 <= CANVAS_H.
FitInvariant ==
    Valid => \A i \in 1..Len(Recs) :
                /\ 0 <= Cut(i).x0 /\ Cut(i).x0 <= Cut(i).x1 /\ Cut(i).x1 <= CANVAS_W
                /\ 0 <= Cut(i).y0 /\ Cut(i).y0 <= Cut(i).y1 /\ Cut(i).y1 <= CANVAS_H

\* C2: in a (SIDE, END) row the right cut rect starts exactly at the left
\* cut rect's x1; in every other row the right cut rect is centered in the
\* right cell; in both cases its y0 is the centered y + (cell_h - fh) // 2.
ButtingExact ==
    \A row \in RowsDone :
        LET lf == Cut(2 * row + 1)
            rt == Cut(2 * row + 2)
            fw1 == rt.x1 - rt.x0
            fh1 == rt.y1 - rt.y0
            x_right == grid_x0 + cols_px[1] + COL_GAP_PX
        IN  /\ SideEndRow(row) => rt.x0 = lf.x1
            /\ ~SideEndRow(row) => rt.x0 = x_right + (cols_px[2] - fw1) \div 2
            /\ rt.y0 = RowTop(row) + (rows_px[row + 1] - fh1) \div 2

\* a finished layout with a butted row whose END is not where centering
\* would have put it, and a row with an END that is not butted
ButtingSeen ==
    /\ pc = "title"
    /\ \E row \in 0..2 :
          /\ SideEndRow(row)
          /\ Cut(2 * row + 2).x0 = Cut(2 * row + 1).x1
          /\ Cut(2 * row + 2).x0 /=
                grid_x0 + cols_px[1] + COL_GAP_PX
                + (cols_px[2] - (Cut(2 * row + 2).x1 - Cut(2 * row + 2).x0)) \div 2
    /\ \E row \in 0..2 : ~SideEndRow(row) /\ IsEnd(grid(row, 1)[1])
                         /\ Cut(2 * row + 2).x0 /= Cut(2 * row + 1).x1

\* C3: a degenerate configuration (an extent sum or an available extent
\* that is <= 0) never gets past the layout computation: nothing is drawn
\* and nothing is appended to the metadata.
DegenerateRejected ==
    (sum_cols_m <= 0 \/ sum_rows_m <= 0 \/ avail_w_px <= 0 \/ avail_h_px <= 0)
        => /\ pc \notin {"setup", "loop", "title", "done"}
           /\ drawn = 0
           /\ Recs = <<>>

\* C4: where 2 * SAFE_INSET < min(panel width, panel height) in pixels, the
\* safe rect is a valid rect strictly inside the cut rect.
SafeContained ==
    \A i \in 1..Len(Recs) :
        LET c == Cut(i)
            sf == Safe(i)
        IN  2 * SAFE_INSET < Min(c.x1 - c.x0, c.y1 - c.y0)
               => /\ sf.x0 < sf.x1 /\ sf.y0 < sf.y1
                  /\ c.x0 < sf.x0 /\ c.y0 < sf.y0
                  /\ sf.x1 < c.x1 /\ sf.y1 < c.y1

\* a record whose panel is larger than twice the inset, and one whose
\* panel is not
SafeSeen ==
    /\ \E i \in 1..Len(Recs) :
          2 * SAFE_INSET < Min(Cut(i).x1 - Cut(i).x0, Cut(i).y1 - Cut(i).y0)
    /\ \E i \in 1..Len(Recs) :
          2 * SAFE_INSET >= Min(Cut(i).x1 - Cut(i).x0, Cut(i).y1 - Cut(i).y0)

\* C8: in a valid configuration the rounded cells fit the available area,
\* and the grid starts no nearer to the canvas edge than the margin.
GridFits ==
    (Valid /\ pc /= "layout")
        => /\ SumSeq(cols_px) <= avail_w_px
           /\ SumSeq(rows_px) <= avail_h_px
           /\ grid_x0 >= MARGIN_PX
           /\ grid_y0 >= MARGIN_PX

\* C9: every record has the five fields, and the flag is true exactly for
\* the right record of a (SIDE, END) row.
RecordFields ==
    \A i \in 1..Len(Recs) :
        /\ DOMAIN Recs[i] = {"name", "meters", "cut_rect", "safe_rect",
                             "butted_to_side_right_edge"}
        /\ Recs[i].butted_to_side_right_edge
              = (i % 2 = 0 /\ SideEndRow((i - 1) \div 2))

\* C5: each cut rect's width and height are the panel's width and height
\* times the one scale written to the metadata, rounded to the nearest
\* pixel: each is within half a pixel (so within 1 pixel) of the scaled
\* length.
AspectPreserved ==
    \A i \in 1..Len(Recs) :
        LET sc == metadata.scale_px_per_meter
            c == Cut(i)
            m == Recs[i].meters
        IN  /\ sc = Scale
            /\ 2 * Abs((c.x1 - c.x0) * sc[2] - m.w * sc[1]) <= Abs(sc[2])
            /\ 2 * Abs((c.y1 - c.y0) * sc[2] - m.h * sc[1]) <= Abs(sc[2])

\* a record whose scaled width is not a whole number of pixels and was
\* rounded up, in a layout limited by the height (s = s_h), not the width
AspectSeen ==
    /\ avail_h_px * sum_cols_m < avail_w_px * sum_rows_m
    /\ \E i \in 1..Len(Recs) :
          (Cut(i).x1 - Cut(i).x0) * s[2] > Recs[i].meters.w * s[1]

\* the records are those of the grid, in order, two per finished row
RecordOrder ==
    /\ Len(Recs) = 2 * r
    /\ pc \in {"title", "done"} => Len(Recs) = 6
    /\ \A i \in 1..Len(Recs) :
          /\ Recs[i].name = faces[i][1]
          /\ Recs[i].meters = [w |-> faces[i][2], h |-> faces[i][3]]

\* C6: the records are those of the grid in row-major order, two per
\* finished row and six at the end, and a step never changes or reorders the
\* records already written.
RecordOrderKept ==
    [][/\ RecordOrder'
       /\ Len(Recs') >= Len(Recs)
       /\ SubSeq(Recs', 1, Len(Recs)) = Recs]_vars

\* all six records written
RecordsSeen == pc = "done" /\ Len(Recs) = 6 /\ Recs[3].name = TOP

\* distances along the edge of a dashed_line call
Along(e, p) == Abs(p[1] - e.p1[1]) + Abs(p[2] - e.p1[2])
EdgeLen(e) == hypot(e.p2[1] - e.p1[1], e.p2[2] - e.p1[2])
OnEdge(e, p) ==
    /\ Along(e, p) + Abs(e.p2[1] - p[1]) + Abs(e.p2[2] - p[2]) = EdgeLen(e)
    /\ (e.p1[1] = e.p2[1] => p[1] = e.p1[1])
    /\ (e.p1[2] = e.p2[2] => p[2] = e.p1[2])

\* C7: every dashed_line call on an edge of length len > 0 with dash_len >= 1
\* and gap_len >= 1 draws segments [start, end] on the edge with
\* 0 <= start < end <= len, the first starting at 0, consecutive ones
\* gap_len apart, all but the last dash_len long, the last one reaching
\* min(start + dash_len, len), with the next period start at or past len.
DashCoverage ==
    \A k \in 1..Len(dashes) :
        LET e == dashes[k]
            len == EdgeLen(e)
            n == Len(e.segs)
            st(j) == Along(e, e.segs[j][1])
            en(j) == Along(e, e.segs[j][2])
        IN  (len > 0 /\ e.dash_len >= 1 /\ e.gap_len >= 1)
               => /\ n >= 1
                  /\ st(1) = 0
                  /\ \A j \in 1..n :
                        /\ OnEdge(e, e.segs[j][1]) /\ OnEdge(e, e.segs[j][2])
                        /\ 0 <= st(j) /\ st(j) < en(j) /\ en(j) <= len
                        /\ j < n => /\ en(j) - st(j) = e.dash_len
                                    /\ st(j + 1) - en(j) = e.gap_len
                  /\ en(n) = Min(st(n) + e.dash_len, len)
                  /\ st(n) + e.dash_len + e.gap_len >= len
                  /\ SumSeq([j \in 1..n |-> en(j) - st(j)]) <= len

\* an edge that is not a whole number of periods long, with several
\* segments, the last one clipped
DashSeen ==
    \E k \in 1..Len(dashes) :
        LET e == dashes[k]
            n == Len(e.segs)
        IN  /\ n >= 2
            /\ EdgeLen(e) % (e.dash_len + e.gap_len) /= 0
            /\ Along(e, e.segs[n][2]) - Along(e, e.segs[n][1]) < e.dash_len
            /\ Along(e, e.segs[n][2]) = EdgeLen(e)

RowOf(i) == (i - 1) \div 2

\* C10: in a valid configuration (the gaps are never negative) no two cut
\* rects overlap: rects of different rows are at least the row gap apart
\* vertically, a pair that is not butted is at least the column gap apart
\* horizontally, and a butted pair meets in the line x = SIDE.x1.
NoOverlap ==
    Valid => \A i \in 1..Len(Recs) : \A j \in 1..Len(Recs) :
                i < j =>
                   LET a == Cut(i)
                       b == Cut(j)
                   IN  /\ \/ a.x1 <= b.x0 \/ b.x1 <= a.x0
                          \/ a.y1 <= b.y0 \/ b.y1 <= a.y0
                       /\ RowOf(i) < RowOf(j) => b.y0 - a.y1 >= ROW_GAP_PX
                       /\ RowOf(i) = RowOf(j) =>
                             IF SideEndRow(RowOf(i))
                             THEN b.x0 = a.x1
                             ELSE b.x0 - a.x1 >= COL_GAP_PX

\* a finished valid layout with positive gaps, a butted pair of positive
\* size, and two rows exactly the row gap apart
OverlapSeen ==
    /\ Valid /\ pc = "title" /\ ROW_GAP_PX > 0 /\ COL_GAP_PX > 0
    /\ \E row \in 0..2 : /\ SideEndRow(row)
                         /\ Cut(2 * row + 1).x0 < Cut(2 * row + 1).x1
                         /\ Cut(2 * row + 2).x0 < Cut(2 * row + 2).x1
    /\ Cut(3).y0 - Cut(1).y1 = ROW_GAP_PX

====
